---- MODULE Spec2Model ----
(***************************************************************************)
(* A model of the layered EVM interpreter: the core Machine                *)
(* (src/core/src/lib.rs), the Runtime wrapped around it                    *)
(* (src/runtime/src/lib.rs) and the VM driver with its call stack of       *)
(* machines (src/sputnikvm/src/vm/mod.rs).                                 *)
(*                                                                         *)
(* The opcode handlers (core eval), Stack, Memory, Valids, the runtime's   *)
(* trap evaluation and the interrupt resolution are modelled from the      *)
(* specification of those modules; the machines the VM drives, from the    *)
(* way the driver uses them.                                               *)
(***************************************************************************)
EXTENDS Integers, Sequences, FiniteSets, TLC

VARIABLES
    code,           \* Machine.code
    position,       \* Machine.position : Result<usize, ExitReason>
    return_range,   \* Machine.return_range : <<start, end>>
    valids,         \* Machine.valids : one BOOLEAN per code byte
    memory,         \* Machine.memory : sequence of bytes
    stack,          \* Machine.stack : sequence of words, top last
    stack_limit,    \* the limit Stack::new was given
    status,         \* Runtime.status : "Ok" or the terminal ExitReason
    rpc,            \* where the control of Runtime::run is
    pending,        \* the interrupt run has handed to the driver, and its trap's PC
    validated,      \* the pre_validate calls since the last machine step
    called,         \* has run called the Handler since it was entered
    aborted,        \* the thread has panicked
    ret,            \* what the last operation returned
    ran,            \* the opcode handler the last machine step ran, and its Control
    pre,            \* the machine and runtime as they were when it was called
    returned,       \* what return_value returned
    config,         \* Runtime._config
    context,        \* Runtime.context
    mpc,            \* where the control of Machine::run is
    registered,     \* the machine step and the register_step calls since the last inspect
    machines,       \* VM.machines : the call stack of machines, innermost last
    history,        \* VM.history : the contexts of the invokes
    fpc,            \* where the control of VM::fire is
    vret,           \* what the last operation of the VM returned
    vpre,           \* the VM as it was when that operation was called, once fired
    sret,           \* what the last VM::step did and returned
    spre,           \* the VM as it was before that step
    pushes,         \* the machines VM::step has pushed so far
    fired           \* has a fire returned Ok

mvars == <<code, position, return_range, valids, memory, stack, stack_limit>>
rvars == <<status, rpc, pending, validated, called, registered>>
\* what the machine's stepping and the runtime's run never touch
vmvars == <<machines, history, fpc, vret, vpre, sret, spre, pushes, fired>>
ovars == <<returned, config, context, vmvars>>
vars == <<code, position, return_range, valids, memory, stack, stack_limit,
          status, rpc, pending, validated, called, aborted, ret, ran, pre,
          returned, config, context, registered, mpc,
          machines, history, fpc, vret, vpre, sret, spre, pushes, fired>>
\* what the VM's operations never touch
evars == <<mvars, rvars, ret, ran, pre, returned, config, context, mpc>>

----------------------------------------------------------------------------
(* Bounds of the model *)

\* instructions in the enumerated part of a program
MaxInstr == 3
\* the larger of the two stack limits a machine is built with
StackLimit == 8
\* the width of usize and of U256 in the check of return_value, scaled down
UsizeBits == 3
WordBits == 5
\* the memory limit of the fork presets, scaled down
MemoryLimit == 64
\* the depth of the deepest machine of a VM
MaxDepth == 3
\* the instructions one machine of a VM executes
MaxExec == 2

----------------------------------------------------------------------------
(* Opcode bytes *)

STOP == 0
CHAINID == 70
SLOAD == 84
MSTORE == 82
JUMP == 86
JUMPI == 87
JUMPDEST == 91
PUSH1 == 96
PUSH32 == 127
CREATE == 240
CALL == 241
RETURN == 243
REVERT == 253
INVALID == 254

\* H256 is 32 bytes wide; so is a memory word (size_of::<U256>())
HashLen == 32

IsPush(op) == op >= PUSH1 /\ op <= PUSH32
PushLen(op) == op - (PUSH1 - 1)

----------------------------------------------------------------------------
(* Result<usize, ExitReason> *)

Ok(pc) == [ok |-> TRUE, pc |-> pc, reason |-> "None"]
Err(reason) == [ok |-> FALSE, pc |-> 0, reason |-> reason]

(* What an operation returns.  call names the operation; kind is "Ok",     *)
(* "Exit", "Trap", "Unit" (exit returns nothing), "Panic" or "None".       *)
\* no opcode: one more than the largest byte
NoOpcode == 255 + 1
\* no PC
NoPc == 0 - 1
NoStep == [op |-> NoOpcode, pc |-> 0, stack |-> <<>>, memory |-> <<>>]
MachineStepRec(op, pc, stk, chunks) ==
    [op |-> op, pc |-> pc, stack |-> stk, memory |-> chunks]
Ret(call, kind, reason, opcode, step) ==
    [call |-> call, kind |-> kind, reason |-> reason, opcode |-> opcode, step |-> step]
RetNone == Ret("none", "None", "None", NoOpcode, NoStep)

\* what step returned since the last inspect, the register_step calls made
\* since, the RuntimeStep of the last one, and the PC and stack the machine
\* had when it was stepped
Registered(kind, n, address, step, pc, stk) ==
    [kind |-> kind, n |-> n, address |-> address, step |-> step,
     before |-> [pc |-> pc, stack |-> stk]]
NotRegistered == Registered("None", 0, 0, NoStep, 0, <<>>)

\* the handler a machine step ran: its opcode, the PC it ran at, its Control
\* (after: the PC of the trap whose interrupt the driver resolved just before)
Ran(opcode, at, ctl, arg, after) ==
    [opcode |-> opcode, at |-> at, ctl |-> ctl, arg |-> arg, after |-> after]
RanNone == Ran(NoOpcode, 0, "None", 0, NoPc)

\* the interrupt handed to the driver: kind "None", "Call", "Create", or
\* "Resolved" once the driver has applied its result
Interrupt(kind, at) == [kind |-> kind, at |-> at]
NoInterrupt == Interrupt("None", NoPc)

\* the pre_validate calls since the last machine step: how many, and the
\* opcode, stack, PC and answer of the last one
Validated(n, opcode, stk, at, result) ==
    [n |-> n, opcode |-> opcode, stack |-> stk, at |-> at, result |-> result]
NotValidated == Validated(0, NoOpcode, <<>>, NoPc, "Ok")

\* what return_value returned: the bytes, or a panic; NoValue before any call
ReturnedBytes(bytes) == [called |-> TRUE, ok |-> TRUE, bytes |-> bytes]
ReturnPanic == [called |-> TRUE, ok |-> FALSE, bytes |-> <<>>]
NoValue == [called |-> FALSE, ok |-> TRUE, bytes |-> <<>>]

----------------------------------------------------------------------------
(* Config *)

\* Config::frontier, with the stack limit scaled down to limit
Frontier(limit) ==
    [stack_limit |-> limit, memory_limit |-> MemoryLimit,
     has_delegate_call |-> FALSE, has_create2 |-> FALSE, has_revert |-> FALSE,
     has_return_data |-> FALSE, has_bitwise_shifting |-> FALSE,
     has_chain_id |-> FALSE, has_self_balance |-> FALSE,
     has_ext_code_hash |-> FALSE]

\* Config::istanbul, with the stack limit scaled down to limit
Istanbul(limit) ==
    [stack_limit |-> limit, memory_limit |-> MemoryLimit,
     has_delegate_call |-> TRUE, has_create2 |-> TRUE, has_revert |-> TRUE,
     has_return_data |-> TRUE, has_bitwise_shifting |-> TRUE,
     has_chain_id |-> TRUE, has_self_balance |-> TRUE,
     has_ext_code_hash |-> TRUE]

----------------------------------------------------------------------------
(* Programs *)

Zeros(n) == [i \in 1..n |-> 0]

\* the instructions the enumerated programs are made of
Instrs == { <<PUSH1, 0>>, <<PUSH1, 30>>, <<JUMP>>, <<JUMPI>>, <<JUMPDEST>>, <<CALL>> }

RECURSIVE Progs(_)
Progs(n) == IF n = 0 THEN { <<>> }
            ELSE Progs(n - 1) \cup { p \o i : p \in Progs(n - 1), i \in Instrs }

RECURSIVE Repeat(_, _)
Repeat(i, n) == IF n = 0 THEN <<>> ELSE i \o Repeat(i, n - 1)

\* longer programs: a call and a create with their operands, a storage read,
\* a return, a designated invalid, a revert, a chain id, a JUMPDEST byte
\* inside a PUSH immediate, a loop
Scenarios == { Repeat(<<PUSH1, 0>>, 7) \o <<CALL, JUMPDEST>>,
               Repeat(<<PUSH1, 1>>, 7) \o <<CALL, PUSH1, 1, PUSH1, 0, RETURN>>,
               Repeat(<<PUSH1, 0>>, 3) \o <<CREATE, PUSH1, 30, JUMP>>,
               <<PUSH1, 1, SLOAD, PUSH1, 30, JUMP>>,
               <<SLOAD>>,
               <<PUSH1, 1, PUSH1, 30, MSTORE, PUSH1, 30, PUSH1, 1, RETURN>>,
               <<PUSH1, 1, PUSH1, 0, RETURN>>,
               <<INVALID>>,
               <<PUSH1, 0, PUSH1, 0, REVERT>>,
               <<CHAINID, PUSH1, 30, JUMP>>,
               <<PUSH1, JUMPDEST, PUSH1, 1, JUMP>>,
               <<JUMPDEST, PUSH1, 0, PUSH1, 1, PUSH1, 0, JUMPI>> }

Tails == { JUMPDEST, PUSH1, PUSH32 }

\* a program padded with STOP to HashLen bytes, ending in a JUMPDEST and a tail
Pad(p, t) == p \o Zeros(HashLen - 2 - Len(p)) \o <<JUMPDEST, t>>

Codes == { Pad(p, t) : p \in Progs(MaxInstr) \cup Scenarios, t \in Tails }
         \cup Progs(MaxInstr)

StackLimits == { 2, StackLimit }

\* the addresses of the contexts a runtime is built with
Addresses == { 1 }

\* the configurations a runtime is built from
Configs == { Frontier(2), Istanbul(StackLimit) }

----------------------------------------------------------------------------
(* Valids: the jump-destination bitmap, built by one linear pass *)

CodeAt(c, i) == c[i + 1]

RECURSIVE ValidsScan(_, _, _)
ValidsScan(c, i, acc) ==
    IF i >= Len(c) THEN acc
    ELSE IF CodeAt(c, i) = JUMPDEST
         THEN ValidsScan(c, i + 1, [acc EXCEPT ![i + 1] = TRUE])
    ELSE IF IsPush(CodeAt(c, i))
         THEN ValidsScan(c, i + PushLen(CodeAt(c, i)) + 1, acc)
    ELSE ValidsScan(c, i + 1, acc)

ValidsNew(c) == ValidsScan(c, 0, [i \in 1..Len(c) |-> FALSE])

IsValid(v, t) == t < Len(v) /\ v[t + 1]

----------------------------------------------------------------------------
(* Stack: bounded LIFO, top last *)

StackPush(s, limit, v) ==
    IF Len(s) + 1 > limit THEN [ok |-> FALSE, stack |-> s]
    ELSE [ok |-> TRUE, stack |-> Append(s, v)]

Top(s) == s[Len(s)]
Pop(s) == SubSeq(s, 1, Len(s) - 1)

----------------------------------------------------------------------------
(* Memory: byte-addressed, grown to whole words *)

Ceil32(n) == ((n + HashLen - 1) \div HashLen) * HashLen

\* resize_offset(offset, len): extend to the word boundary at or after offset+len
ResizeOffset(mem, offset, len) ==
    IF len = 0 \/ Len(mem) >= Ceil32(offset + len) THEN mem
    ELSE mem \o Zeros(Ceil32(offset + len) - Len(mem))

\* byte k (0 = least significant) of word v
RECURSIVE ByteOf(_, _)
ByteOf(v, k) == IF k = 0 THEN v % 256 ELSE ByteOf(v \div 256, k - 1)

\* set(offset, the 32 big-endian bytes of v)
MemSetWord(mem, offset, v) ==
    [i \in 1..Len(mem) |->
        IF i - 1 >= offset /\ i - 1 < offset + HashLen
        THEN ByteOf(v, HashLen - 1 - (i - 1 - offset))
        ELSE mem[i]]

----------------------------------------------------------------------------
(* Core eval: one opcode handler, returning a Control *)

Control(ctl, arg, reason, m) ==
    [ctl |-> ctl, arg |-> arg, reason |-> reason,
     stack |-> m.stack, memory |-> m.memory, return_range |-> m.return_range]

\* PUSHn: the n bytes after position, zero-padded past the end of the code
RECURSIVE PushValue(_, _, _, _)
PushValue(c, from, n, acc) ==
    IF n = 0 THEN acc
    ELSE PushValue(c, from + 1, n - 1,
                   acc * 256 + (IF from < Len(c) THEN CodeAt(c, from) ELSE 0))

EvalPush(m, opcode, pos) ==
    LET r == StackPush(m.stack, stack_limit,
                       PushValue(code, pos + 1, PushLen(opcode), 0))
    IN  IF r.ok THEN Control("Continue", 1 + PushLen(opcode), "None",
                             [m EXCEPT !.stack = r.stack])
        ELSE Control("Exit", 0, "StackOverflow", m)

JumpTo(m, dest) ==
    IF IsValid(valids, dest) THEN Control("Jump", dest, "None", m)
    ELSE Control("Exit", 0, "InvalidJump", m)

EvalJump(m) ==
    IF Len(m.stack) < 1 THEN Control("Exit", 0, "StackUnderflow", m)
    ELSE JumpTo([m EXCEPT !.stack = Pop(m.stack)], Top(m.stack))

EvalJumpi(m) ==
    IF Len(m.stack) < 1 THEN Control("Exit", 0, "StackUnderflow", m)
    ELSE IF Len(m.stack) < 2
         THEN Control("Exit", 0, "StackUnderflow", [m EXCEPT !.stack = <<>>])
    ELSE LET dest == Top(m.stack)
             value == Top(Pop(m.stack))
             m2 == [m EXCEPT !.stack = Pop(Pop(m.stack))]
         IN  IF value # 0 THEN JumpTo(m2, dest)
             ELSE Control("Continue", 1, "None", m2)

EvalMstore(m) ==
    IF Len(m.stack) < 1 THEN Control("Exit", 0, "StackUnderflow", m)
    ELSE IF Len(m.stack) < 2
         THEN Control("Exit", 0, "StackUnderflow", [m EXCEPT !.stack = <<>>])
    ELSE LET index == Top(m.stack)
             value == Top(Pop(m.stack))
         IN  Control("Continue", 1, "None",
                     [m EXCEPT !.stack = Pop(Pop(m.stack)),
                               !.memory = MemSetWord(
                                   ResizeOffset(m.memory, index, HashLen),
                                   index, value)])

EvalReturn(m) ==
    IF Len(m.stack) < 1 THEN Control("Exit", 0, "StackUnderflow", m)
    ELSE IF Len(m.stack) < 2
         THEN Control("Exit", 0, "StackUnderflow", [m EXCEPT !.stack = <<>>])
    ELSE LET start == Top(m.stack)
             len == Top(Pop(m.stack))
         IN  Control("Exit", 0, "Returned",
                     [m EXCEPT !.stack = Pop(Pop(m.stack)),
                               !.memory = ResizeOffset(m.memory, start, len),
                               !.return_range = <<start, start + len>>])

EvalRevert(m) ==
    IF Len(m.stack) < 1 THEN Control("Exit", 0, "StackUnderflow", m)
    ELSE IF Len(m.stack) < 2
         THEN Control("Exit", 0, "StackUnderflow", [m EXCEPT !.stack = <<>>])
    ELSE LET start == Top(m.stack)
             len == Top(Pop(m.stack))
         IN  Control("Exit", 0, "Revert",
                     [m EXCEPT !.stack = Pop(Pop(m.stack)),
                               !.memory = ResizeOffset(m.memory, start, len),
                               !.return_range = <<start, start + len>>])

\* the core's opcode handlers: eval(machine, opcode, position) is given the
\* machine alone, which holds no Config
Eval(m, opcode, pos) ==
    IF opcode = STOP THEN Control("Exit", 0, "Stopped", m)
    ELSE IF opcode = JUMPDEST THEN Control("Continue", 1, "None", m)
    ELSE IF IsPush(opcode) THEN EvalPush(m, opcode, pos)
    ELSE IF opcode = JUMP THEN EvalJump(m)
    ELSE IF opcode = JUMPI THEN EvalJumpi(m)
    ELSE IF opcode = MSTORE THEN EvalMstore(m)
    ELSE IF opcode = RETURN THEN EvalReturn(m)
    ELSE IF opcode = REVERT THEN EvalRevert(m)
    ELSE IF opcode = INVALID THEN Control("Exit", 0, "DesignatedInvalid", m)
    ELSE Control("Trap", opcode, "None", m)

----------------------------------------------------------------------------
(* No VM: the values of the VM's variables where only a Machine or a Runtime
   is run *)

VMRet(call, result) == [call |-> call, result |-> result]
VMSnapshot(ms, hist, f) == [machines |-> ms, history |-> hist, fired |-> f]
\* the snapshot an operation takes when it is called: of a VM a fire has
\* brought to its exit
FiredSnapshot(ms, hist, f) ==
    IF f THEN VMSnapshot(ms, hist, f) ELSE VMSnapshot(<<>>, <<>>, FALSE)
StepRet(branch, result) == [branch |-> branch, result |-> result]

NoVM ==
    /\ machines = <<>>
    /\ history = <<>>
    /\ fpc = "idle"
    /\ vret = VMRet("none", "None")
    /\ vpre = VMSnapshot(<<>>, <<>>, FALSE)
    /\ sret = StepRet("none", "None")
    /\ spre = VMSnapshot(<<>>, <<>>, FALSE)
    /\ pushes = 0
    /\ fired = FALSE

----------------------------------------------------------------------------
(* Machine *)

Machine == [stack |-> stack, memory |-> memory, return_range |-> return_range]

\* the machine and the runtime status as an operation finds them
Snapshot == [position |-> position, stack |-> stack, memory |-> memory,
             return_range |-> return_range, status |-> status,
             last |-> [call |-> ret.call, kind |-> ret.kind,
                       reason |-> ret.reason, at |-> ran.at]]

\* exit that keeps the reason of a machine already terminal
ExitPositionKeep(pos, reason) == IF pos.ok THEN Err(reason) ELSE pos

\* Machine::exit
ExitPosition(pos, reason) == Err(reason)

\* code.get(position)
CodeGet(c, pos) == IF pos < Len(c) THEN [some |-> TRUE, opcode |-> CodeAt(c, pos)]
                   ELSE [some |-> FALSE, opcode |-> NoOpcode]

\* H256::from_slice(code): copies the bytes, and panics unless there are HashLen
FromSlice(c) == [ok |-> Len(c) = HashLen, bytes |-> c]

\* memory.chunks(size_of::<U256>()): the words of the memory, the last one short
\* when the length is no multiple of the word size
MemoryChunks(mem) ==
    [k \in 1..((Len(mem) + HashLen - 1) \div HashLen) |->
        SubSeq(mem, (k - 1) * HashLen + 1,
               IF k * HashLen <= Len(mem) THEN k * HashLen ELSE Len(mem))]

\* Jump(t) taken relative to the current PC
NextPositionRelJump(c, pos) ==
    IF c.ctl = "Continue" THEN Ok(pos + c.arg)
    ELSE IF c.ctl = "Exit" THEN Err(c.reason)
    ELSE IF c.ctl = "Jump" THEN Ok(pos + c.arg)
    ELSE Ok(pos + 1)

\* Jump(t) treated as Continue(1)
NextPositionNoJump(c, pos) ==
    IF c.ctl = "Continue" THEN Ok(pos + c.arg)
    ELSE IF c.ctl = "Exit" THEN Err(c.reason)
    ELSE Ok(pos + 1)

\* Trap(opcode) leaving the PC on the trapping opcode
NextPositionTrapStays(c, pos) ==
    IF c.ctl = "Continue" THEN Ok(pos + c.arg)
    ELSE IF c.ctl = "Exit" THEN Err(c.reason)
    ELSE IF c.ctl = "Jump" THEN Ok(c.arg)
    ELSE Ok(pos)

\* the position step leaves after eval's Control; pos is the PC it ran at
NextPosition(c, pos) ==
    IF c.ctl = "Continue" THEN Ok(pos + c.arg)
    ELSE IF c.ctl = "Exit" THEN Err(c.reason)
    ELSE IF c.ctl = "Jump" THEN Ok(c.arg)
    ELSE Ok(pos + 1)

\* what step returns after eval's Control
StepReturn(call, c, step) ==
    IF c.ctl \in {"Continue", "Jump"} THEN Ret(call, "Ok", "None", NoOpcode, step)
    ELSE IF c.ctl = "Exit" THEN Ret(call, "Exit", c.reason, NoOpcode, NoStep)
    ELSE Ret(call, "Trap", "None", c.arg, NoStep)

\* a terminal step that reports Stopped whatever the reason was
TerminalReturnStopped(call, pos) == Ret(call, "Exit", "Stopped", NoOpcode, NoStep)

\* what step returns from a terminal position
TerminalReturn(call, pos) == Ret(call, "Exit", pos.reason, NoOpcode, NoStep)

\* a halt at the end of the code that forgets to make the position terminal
StepOffEndRunning(call) ==
    [position |-> position, ret |-> Ret(call, "Exit", "Stopped", NoOpcode, NoStep)]

\* step at or past the end of the code
StepOffEnd(call) ==
    [position |-> Err("Stopped"), ret |-> Ret(call, "Exit", "Stopped", NoOpcode, NoStep)]

\* Machine::step as a function of the current machine: the machine it leaves,
\* what it returns, the handler it ran and whether it panicked
StepOutcome(call) ==
    LET keep == [position |-> position, stack |-> stack, memory |-> memory,
                 return_range |-> return_range, panic |-> FALSE,
                 ran |-> RanNone, ret |-> RetNone]
    IN  IF ~position.ok
        THEN [keep EXCEPT !.ret = TerminalReturn(call, position)]
        ELSE LET got == CodeGet(code, position.pc)
             IN  IF got.some
                 THEN IF ~FromSlice(code).ok
                      THEN [keep EXCEPT !.panic = TRUE,
                                        !.ret = Ret(call, "Panic", "None", NoOpcode, NoStep)]
                      ELSE LET step == MachineStepRec(got.opcode, position.pc, stack,
                                                      MemoryChunks(memory))
                               c == Eval(Machine, got.opcode, position.pc)
                           IN  [position |-> NextPosition(c, position.pc),
                                stack |-> c.stack,
                                memory |-> c.memory,
                                return_range |-> c.return_range,
                                panic |-> FALSE,
                                ran |-> Ran(got.opcode, position.pc, c.ctl, c.arg,
                                            IF pending.kind = "Resolved"
                                            THEN pending.at ELSE NoPc),
                                ret |-> StepReturn(call, c, step)]
                 ELSE [keep EXCEPT !.position = StepOffEnd(call).position,
                                   !.ret = StepOffEnd(call).ret]

----------------------------------------------------------------------------
(* The Machine driven through its own interface *)

ExitReasons == { "Stopped", "OutOfGas" }

MachineNew(c, limit) ==
    /\ code = c
    /\ position = Ok(0)
    /\ return_range = <<0, 0>>
    /\ valids = ValidsNew(c)
    /\ memory = <<>>
    /\ stack = <<>>
    /\ stack_limit = limit

\* Runtime::new that hands the machine the memory limit as its stack limit
RuntimeNewMemoryLimit(c, addr, cfg) ==
    /\ MachineNew(c, cfg.memory_limit)
    /\ status = "Ok"
    /\ context = [address |-> addr]
    /\ config = cfg

\* Runtime::new
RuntimeNew(c, addr, cfg) ==
    /\ MachineNew(c, cfg.stack_limit)
    /\ status = "Ok"
    /\ context = [address |-> addr]
    /\ config = cfg

Init ==
    /\ \E c \in Codes, addr \in Addresses, cfg \in Configs : RuntimeNew(c, addr, cfg)
    /\ registered = NotRegistered
    /\ mpc = "idle"
    /\ rpc = "idle"
    /\ pending = NoInterrupt
    /\ validated = NotValidated
    /\ called = FALSE
    /\ aborted = FALSE
    /\ ret = RetNone
    /\ ran = RanNone
    /\ returned = NoValue
    /\ NoVM
    /\ pre = [position |-> Ok(0), stack |-> <<>>, memory |-> <<>>,
              return_range |-> <<0, 0>>, status |-> "Ok",
              last |-> [call |-> "none", kind |-> "None",
                        reason |-> "None", at |-> 0]]

\* Machine::step
Step ==
    /\ ~aborted
    /\ LET o == StepOutcome("step")
       IN  /\ position' = o.position
           /\ stack' = o.stack
           /\ memory' = o.memory
           /\ return_range' = o.return_range
           /\ aborted' = o.panic
           /\ ret' = o.ret
           /\ ran' = o.ran
    /\ pre' = Snapshot
    /\ UNCHANGED <<code, valids, stack_limit, rvars>>
    /\ UNCHANGED <<ovars, mpc>>

\* Machine::exit(reason)
Exit(reason) ==
    /\ ~aborted
    /\ position' = ExitPosition(position, reason)
    /\ ret' = Ret("exit", "Unit", reason, NoOpcode, NoStep)
    /\ ran' = RanNone
    /\ pre' = Snapshot
    /\ UNCHANGED <<code, valids, stack_limit, return_range, memory, stack, rvars, aborted>>
    /\ UNCHANGED <<ovars, mpc>>

Next == Step \/ \E reason \in ExitReasons : Exit(reason)

Spec == Init /\ [][Next]_vars

----------------------------------------------------------------------------
(* Machine::run *)

MachineRunInProgress == Ret("mrun", "None", "None", NoOpcode, NoStep)

\* Machine::run is called
MachineRunCall ==
    /\ ~aborted
    /\ mpc = "idle"
    /\ mpc' = "loop"
    /\ ret' = MachineRunInProgress
    /\ pre' = Snapshot
    /\ UNCHANGED <<mvars, rvars, aborted, ran, ovars>>

\* run: one turn of its loop, a step of the machine
MachineRunStep ==
    /\ mpc = "loop"
    /\ LET o == StepOutcome("mrun")
       IN  /\ position' = o.position
           /\ stack' = o.stack
           /\ memory' = o.memory
           /\ return_range' = o.return_range
           /\ aborted' = o.panic
           /\ ran' = o.ran
           /\ IF o.ret.kind = "Ok"
              THEN UNCHANGED <<mpc, ret>>
              ELSE mpc' = "idle" /\ ret' = o.ret
    /\ UNCHANGED <<code, valids, stack_limit, rvars, pre, ovars>>

MachineRunNext == MachineRunCall \/ MachineRunStep

\* the loop of run goes on while it can, and run is called again after it
\* has returned
MachineRunSpec ==
    /\ Init
    /\ [][MachineRunNext]_vars
    /\ WF_vars(MachineRunStep)
    /\ WF_vars(MachineRunCall)

----------------------------------------------------------------------------
(* Machine::return_value, over words and indices of the scaled widths *)

UsizeMax == 2 ^ UsizeBits - 1
\* the most bytes a Vec<u8> can hold
IsizeMax == 2 ^ (UsizeBits - 1) - 1
WordMax == 2 ^ WordBits - 1

\* U256::as_usize: panics when the word does not fit
AsUsize(w) == [ok |-> w <= UsizeMax, val |-> w]

\* a Vec<u8> of n bytes: panics (capacity overflow) above isize::MAX
VecFits(n) == n <= IsizeMax

\* Memory::get(offset, size): size bytes from offset, zeros past the memory
MemoryGet(mem, offset, size) ==
    IF ~VecFits(size) THEN ReturnPanic
    ELSE ReturnedBytes([i \in 1..size |->
             IF offset + i <= Len(mem) THEN mem[offset + i] ELSE 0])

\* return_value that returns the clamped read without padding it
ReturnValueNoPad(range, mem) ==
    LET start == range[1]
        end == range[2]
    IN  IF start > UsizeMax
        THEN IF AsUsize(end - start).ok /\ VecFits(end - start)
             THEN ReturnedBytes(Zeros(end - start))
             ELSE ReturnPanic
        ELSE IF end > UsizeMax
        THEN MemoryGet(mem, start, UsizeMax - start)
        ELSE MemoryGet(mem, start, end - start)

\* Machine::return_value
ReturnValue(range, mem) ==
    LET start == range[1]
        end == range[2]
    IN  IF start > UsizeMax
        THEN IF AsUsize(end - start).ok /\ VecFits(end - start)
             THEN ReturnedBytes(Zeros(end - start))
             ELSE ReturnPanic
        ELSE IF end > UsizeMax
        THEN LET got == MemoryGet(mem, start, UsizeMax - start)
             IN  IF ~got.ok THEN ReturnPanic
                 ELSE IF ~AsUsize(end - start).ok THEN ReturnPanic
                 ELSE IF Len(got.bytes) >= end - start THEN got
                 ELSE IF ~VecFits(end - start) THEN ReturnPanic
                 ELSE ReturnedBytes(got.bytes \o Zeros(end - start - Len(got.bytes)))
        ELSE MemoryGet(mem, start, end - start)

\* the memories return_value is called on
Memories == { <<>>, <<1, 2>>, <<3, 4, 5>> }

\* a machine that has exited with a return range
ReturnInit ==
    /\ code = <<>>
    /\ valids = <<>>
    /\ position = Err("Returned")
    /\ \E start \in 0..WordMax, end \in 0..WordMax :
           start <= end /\ return_range = <<start, end>>
    /\ memory \in Memories
    /\ stack = <<>>
    /\ stack_limit = StackLimit
    /\ status = "Ok"
    /\ rpc = "idle"
    /\ pending = NoInterrupt
    /\ validated = NotValidated
    /\ called = FALSE
    /\ aborted = FALSE
    /\ ret = RetNone
    /\ ran = RanNone
    /\ returned = NoValue
    /\ config = Istanbul(StackLimit)
    /\ context = [address |-> 0]
    /\ registered = NotRegistered
    /\ mpc = "idle"
    /\ NoVM
    /\ pre = [position |-> Err("Returned"), stack |-> <<>>, memory |-> <<>>,
              return_range |-> <<0, 0>>, status |-> "Ok",
              last |-> [call |-> "none", kind |-> "None",
                        reason |-> "None", at |-> 0]]

\* Machine::return_value is called
ReturnValueCall ==
    /\ ~aborted
    /\ returned' = ReturnValue(return_range, memory)
    /\ aborted' = ~ReturnValue(return_range, memory).ok
    /\ UNCHANGED <<mvars, rvars, ret, ran, pre, config, context, mpc, vmvars>>

ReturnNext == ReturnValueCall

ReturnSpec == ReturnInit /\ [][ReturnNext]_vars

----------------------------------------------------------------------------
(* Runtime *)

\* the errors Handler::pre_validate answers with
PreValidateErrors == { "OutOfGas", "StackUnderflow" }

\* the words Handler::storage answers with
StorageWords == { 0, 1 }

\* inspect that reads the code whatever the position is
InspectAnyPosition(pos, c) == CodeGet(c, pos.pc)

\* Machine::inspect: the next opcode, if the machine is running and in the code
Inspect(pos, c) ==
    IF pos.ok THEN CodeGet(c, pos.pc) ELSE [some |-> FALSE, opcode |-> NoOpcode]

\* a failed pre_validate that exits the machine and forgets the status
StatusAfterPreValidateKept(st, result) == st

\* the status after pre_validate answered
StatusAfterPreValidate(st, result) == IF result = "Ok" THEN st ELSE result

\* the position after pre_validate answered
PositionAfterPreValidate(pos, result) ==
    IF result = "Ok" THEN pos ELSE ExitPosition(pos, result)

\* an interrupt that leaves the runtime exited until it is resolved
StatusAfterTrapUnhandled(st, t) ==
    IF t.ctl = "Exit" THEN t.reason
    ELSE IF t.ctl = "Continue" THEN st
    ELSE "UnhandledInterrupt"

\* the status after the trap was evaluated
StatusAfterTrap(st, t) == IF t.ctl = "Exit" THEN t.reason ELSE st

\* a trap that exits the runtime and leaves the machine running
PositionAfterTrapKept(pos, t) == pos

\* the position after the trap was evaluated
PositionAfterTrap(pos, t) == IF t.ctl = "Exit" THEN ExitPosition(pos, t.reason) ELSE pos

\* pop n operands one by one; an absent one is a StackUnderflow
PopN(s, n) == IF Len(s) < n THEN [ok |-> FALSE, stack |-> <<>>]
              ELSE [ok |-> TRUE, stack |-> SubSeq(s, 1, Len(s) - n)]

RuntimeControl(ctl, reason, stk) == [ctl |-> ctl, reason |-> reason, stack |-> stk]

\* the runtime's evaluation of a trapped opcode: the Controls it can return,
\* over the answers of the Handler
RuntimeEval(stk, opcode) ==
    IF opcode = SLOAD
    THEN IF ~PopN(stk, 1).ok
         THEN { RuntimeControl("Exit", "StackUnderflow", PopN(stk, 1).stack) }
         ELSE { RuntimeControl("Continue", "None", Append(PopN(stk, 1).stack, w)) :
                    w \in StorageWords }
    ELSE IF opcode = CALL
    THEN IF ~PopN(stk, 7).ok
         THEN { RuntimeControl("Exit", "StackUnderflow", PopN(stk, 7).stack) }
         ELSE { RuntimeControl("CallInterrupt", "None", PopN(stk, 7).stack) }
    ELSE IF opcode = CREATE
    THEN IF ~PopN(stk, 3).ok
         THEN { RuntimeControl("Exit", "StackUnderflow", PopN(stk, 3).stack) }
         ELSE { RuntimeControl("CreateInterrupt", "None", PopN(stk, 3).stack) }
    ELSE IF opcode = CHAINID /\ config.has_chain_id
    THEN IF ~StackPush(stk, stack_limit, 1).ok
         THEN { RuntimeControl("Exit", "StackOverflow", stk) }
         ELSE { RuntimeControl("Continue", "None", StackPush(stk, stack_limit, 1).stack) }
    ELSE { RuntimeControl("Exit", "DesignatedInvalid", stk) }

RunInProgress == Ret("run", "None", "None", NoOpcode, NoStep)

\* Runtime::new
RuntimeInit == Init

\* run that registers the step of a trapped opcode too
RegistersTrap(kind) == kind \in {"Ok", "Trap"}

\* run calls register_step for what the machine step returned
Registers(kind) == kind = "Ok"

\* Runtime::run is called
RunCall ==
    /\ ~aborted
    /\ rpc = "idle"
    /\ pending.kind \in {"None", "Resolved"}
    /\ rpc' = "inspect"
    /\ called' = FALSE
    /\ ret' = RunInProgress
    /\ pre' = Snapshot
    /\ registered' = NotRegistered
    /\ UNCHANGED <<mvars, status, pending, validated, aborted, ran>>
    /\ UNCHANGED <<ovars, mpc>>

\* run: inspect the machine and ask pre_validate about the next opcode
RunInspect ==
    /\ rpc = "inspect"
    /\ LET got == Inspect(position, code)
       IN  IF got.some
           THEN \E result \in {"Ok"} \cup PreValidateErrors :
                    /\ validated' = Validated(validated.n + 1, got.opcode, stack,
                                              position.pc, result)
                    /\ called' = TRUE
                    /\ position' = PositionAfterPreValidate(position, result)
                    /\ status' = StatusAfterPreValidate(status, result)
           ELSE UNCHANGED <<validated, called, position, status>>
    /\ rpc' = "status"
    /\ registered' = NotRegistered
    /\ UNCHANGED <<code, valids, stack_limit, return_range, memory, stack,
                   pending, aborted, ret, ran, pre>>
    /\ UNCHANGED <<ovars, mpc>>

\* run: return the status if it is terminal
RunStatus ==
    /\ rpc = "status"
    /\ IF status = "Ok"
       THEN rpc' = "step" /\ ret' = ret
       ELSE rpc' = "idle" /\ ret' = Ret("run", "Exit", status, NoOpcode, NoStep)
    /\ UNCHANGED <<mvars, status, pending, validated, called, registered,
                   aborted, ran, pre>>
    /\ UNCHANGED <<ovars, mpc>>

\* run: step the machine and act on what it returns
RunStep ==
    /\ rpc = "step"
    /\ LET o == StepOutcome("run")
       IN  /\ ran' = o.ran
           /\ return_range' = o.return_range
           /\ memory' = o.memory
           /\ aborted' = o.panic
           /\ validated' = IF o.panic THEN validated ELSE NotValidated
           /\ registered' =
                  IF Registers(o.ret.kind)
                  THEN Registered(o.ret.kind, registered.n + 1, context.address,
                                  o.ret.step, position.pc, stack)
                  ELSE Registered(o.ret.kind, registered.n, 0, NoStep,
                                  position.pc, stack)
           /\ \/ /\ o.ret.kind = "Panic"
                 /\ ret' = o.ret
                 /\ rpc' = "idle"
                 /\ UNCHANGED <<position, stack, status, pending, called>>
              \/ /\ o.ret.kind = "Ok"
                 /\ called' = TRUE
                 /\ position' = o.position
                 /\ stack' = o.stack
                 /\ pending' = NoInterrupt
                 /\ rpc' = "inspect"
                 /\ UNCHANGED <<status, ret>>
              \/ /\ o.ret.kind = "Exit"
                 /\ position' = o.position
                 /\ stack' = o.stack
                 /\ status' = o.ret.reason
                 /\ pending' = NoInterrupt
                 /\ ret' = o.ret
                 /\ rpc' = "idle"
                 /\ UNCHANGED called
              \/ /\ o.ret.kind = "Trap"
                 /\ called' = TRUE
                 /\ \E t \in RuntimeEval(o.stack, o.ret.opcode) :
                        /\ stack' = t.stack
                        /\ position' = PositionAfterTrap(o.position, t)
                        /\ status' = StatusAfterTrap(status, t)
                        /\ IF t.ctl = "Continue"
                           THEN /\ rpc' = "inspect"
                                /\ ret' = ret
                                /\ pending' = NoInterrupt
                           ELSE IF t.ctl = "Exit"
                           THEN /\ rpc' = "idle"
                                /\ ret' = Ret("run", "Exit", t.reason, NoOpcode, NoStep)
                                /\ pending' = NoInterrupt
                           ELSE /\ rpc' = "idle"
                                /\ ret' = Ret("run", "Trap", "None", o.ret.opcode, NoStep)
                                /\ pending' = Interrupt(
                                       IF t.ctl = "CallInterrupt" THEN "Call" ELSE "Create",
                                       o.ran.at)
    /\ UNCHANGED <<code, valids, stack_limit, pre>>
    /\ UNCHANGED <<ovars, mpc>>

\* the driver resolves the interrupt: the success flag of the call, or the
\* address of the created contract, is pushed on the stack
Resolve ==
    /\ ~aborted
    /\ rpc = "idle"
    /\ pending.kind \in {"Call", "Create"}
    /\ \E w \in {0, 1} :
           /\ StackPush(stack, stack_limit, w).ok
           /\ stack' = StackPush(stack, stack_limit, w).stack
    /\ pending' = Interrupt("Resolved", pending.at)
    /\ ret' = Ret("resolve", "Unit", "None", NoOpcode, NoStep)
    /\ pre' = Snapshot
    /\ UNCHANGED <<code, valids, stack_limit, position, return_range, memory,
                   status, rpc, validated, called, registered, aborted, ran>>
    /\ UNCHANGED <<ovars, mpc>>

RuntimeNext == RunCall \/ RunInspect \/ RunStatus \/ RunStep \/ Resolve

RuntimeSpec == RuntimeInit /\ [][RuntimeNext]_vars

----------------------------------------------------------------------------
(* The VM driver (src/sputnikvm/src/vm/mod.rs).  Its machines are modelled  *)
(* by their status, context, depth and the instructions they have executed. *)

\* the context of the outermost machine; a machine that has none to invoke
RootContext == 0
NoContext == 0 - 1

\* the context of the next invoke of a machine: one per invoke of the call tree
InvokeContext(m) == m.context * (MaxExec + 1) + m.invoked + 1

Exited == { "ExitedOk", "ExitedErr" }
Invokes == { "InvokeCall", "InvokeCreate" }

\* a machine of the VM: its status (and the context of its invoke), the
\* context it runs, its depth, the instructions it has executed, the invokes
\* it has made, the sub-machines applied to it, and whether its next
\* instruction needs information that is not committed
VMMachine(st, inv, ctx, d, ex, ivs, ap, req) ==
    [status |-> st, invoke |-> inv, context |-> ctx, depth |-> d,
     executed |-> ex, invoked |-> ivs, applied |-> ap, require |-> req]

\* Machine::new(context, block, patch, depth)
VMMachineNew(ctx, d) == VMMachine("Running", NoContext, ctx, d, 0, 0, 0, FALSE)

\* Machine::derive(context)
Derive(m, ctx) == VMMachineNew(ctx, m.depth + 1)

\* Machine::apply_sub(finished)
ApplySub(m, finished) ==
    [m EXCEPT !.status = "Running", !.invoke = NoContext, !.applied = @ + 1]

\* Machine::step: fails when the instruction needs information, else executes
\* one instruction, which can end the machine or make it invoke
MachineStep(m) ==
    IF m.status # "Running" THEN { [ok |-> TRUE, machine |-> m] }
    ELSE IF m.require THEN { [ok |-> FALSE, machine |-> m] }
    ELSE { [ok |-> TRUE,
            machine |-> [m EXCEPT !.executed = @ + 1, !.status = st]] :
               st \in Exited }
         \cup
         (IF m.executed + 1 < MaxExec
          THEN { [ok |-> TRUE,
                  machine |-> [m EXCEPT !.executed = @ + 1, !.require = req]] :
                     req \in BOOLEAN }
          ELSE {})
         \cup
         (IF m.depth < MaxDepth /\ m.executed + 1 < MaxExec
          THEN { [ok |-> TRUE,
                  machine |-> [m EXCEPT !.executed = @ + 1, !.status = st,
                                        !.invoke = InvokeContext(m),
                                        !.invoked = @ + 1]] :
                     st \in Invokes }
          ELSE {})

\* Machine::commit_account / Machine::commit_blockhash
Commit(m) == [m EXCEPT !.require = FALSE]

\* step that pops a finished machine even when it is the only one
KeepsLastNever(ms) == Len(ms) < 1

\* step leaves a finished machine that is the only one
KeepsLast(ms) == Len(ms) <= 1

\* status that takes a machine that invokes for one that has exited
VMStatusInvokeExited(ms) ==
    IF ms = <<>> THEN "Panic"
    ELSE IF ms[1].status = "Running" THEN "Running"
    ELSE IF ms[1].status \in Invokes THEN "ExitedOk"
    ELSE ms[1].status

\* VM::status
VMStatus(ms) ==
    IF ms = <<>> THEN "Panic"
    ELSE IF ms[1].status \in {"Running"} \cup Invokes THEN "Running"
    ELSE ms[1].status

\* step that acts on the status of the outermost machine, as status() does
TopStatusFirst(ms) == ms[1].status

\* the status step() acts on: that of machines.last()
TopStatus(ms) == ms[Len(ms)].status

\* step that records the context of the invoking machine
HistoryPushOwn(hist, m) == Append(hist, m.context)

\* step records the context of the invoke
HistoryPush(hist, m) == Append(hist, m.invoke)

\* step that fails when it pushes a machine
StepResultInvokeFails(branch, ok) ==
    IF (branch = "instruction" /\ ~ok) \/ branch = "invoke"
    THEN "RequireError" ELSE "Ok"

\* what step returns: the result of the machine's step, Ok(()) elsewhere
StepResult(branch, ok) ==
    IF branch = "instruction" /\ ~ok THEN "RequireError" ELSE "Ok"

\* step that applies the finished machine to the outermost one
AppliedFirst(ms) == 1

\* the machine the finished one is applied to: machines.last_mut() after the pop
Applied(ms) == Len(ms)

VMOutcome(ms, hist, branch, result) ==
    [machines |-> ms, history |-> hist, branch |-> branch, result |-> result]

Front(ms) == SubSeq(ms, 1, Len(ms) - 1)

\* VM::step: the outcomes of one call
VMStepOutcomes(ms, hist) ==
    IF ms = <<>> THEN { VMOutcome(ms, hist, "none", "Panic") }
    ELSE LET top == ms[Len(ms)]
         IN  IF TopStatus(ms) = "Running"
             THEN { VMOutcome([ms EXCEPT ![Len(ms)] = o.machine], hist,
                              "instruction", StepResult("instruction", o.ok)) :
                        o \in MachineStep(top) }
             ELSE IF TopStatus(ms) \in Exited
             THEN IF KeepsLast(ms)
                  THEN { VMOutcome(ms, hist, "finished", StepResult("finished", TRUE)) }
                  ELSE IF Front(ms) = <<>>
                  THEN { VMOutcome(Front(ms), hist, "pop", "Panic") }
                  ELSE { VMOutcome([Front(ms) EXCEPT ![Applied(Front(ms))] = ApplySub(@, top)],
                                   hist, "pop", StepResult("pop", TRUE)) }
             ELSE { VMOutcome(Append(ms, Derive(top, top.invoke)),
                              HistoryPush(hist, top), "invoke",
                              StepResult("invoke", TRUE)) }

\* VM::new
VMNew ==
    /\ machines = <<VMMachineNew(RootContext, 1)>>
    /\ history = <<>>

VMInit ==
    /\ VMNew
    /\ fpc = "idle"
    /\ vret = VMRet("new", "Ok")
    /\ vpre = VMSnapshot(<<>>, <<>>, FALSE)
    /\ sret = StepRet("none", "None")
    /\ spre = VMSnapshot(<<>>, <<>>, FALSE)
    /\ pushes = 0
    /\ fired = FALSE
    /\ aborted = FALSE
    /\ code = <<>>
    /\ valids = <<>>
    /\ position = Ok(0)
    /\ return_range = <<0, 0>>
    /\ memory = <<>>
    /\ stack = <<>>
    /\ stack_limit = StackLimit
    /\ status = "Ok"
    /\ rpc = "idle"
    /\ pending = NoInterrupt
    /\ validated = NotValidated
    /\ called = FALSE
    /\ ret = RetNone
    /\ ran = RanNone
    /\ returned = NoValue
    /\ config = Istanbul(StackLimit)
    /\ context = [address |-> 0]
    /\ registered = NotRegistered
    /\ mpc = "idle"
    /\ pre = [position |-> Ok(0), stack |-> <<>>, memory |-> <<>>,
              return_range |-> <<0, 0>>, status |-> "Ok",
              last |-> [call |-> "none", kind |-> "None",
                        reason |-> "None", at |-> 0]]

\* the step of the VM, called by the driver or by fire
VMStepApply(o) ==
    /\ machines' = o.machines
    /\ history' = o.history
    /\ sret' = StepRet(o.branch, o.result)
    /\ spre' = VMSnapshot(machines, history, fired)
    /\ pushes' = IF o.branch = "invoke" THEN pushes + 1 ELSE pushes
    /\ aborted' = (o.result = "Panic")

\* VM::step is called
VMStep ==
    /\ ~aborted
    /\ fpc = "idle"
    /\ \E o \in VMStepOutcomes(machines, history) :
           /\ VMStepApply(o)
           /\ vret' = VMRet("step", o.result)
    /\ vpre' = FiredSnapshot(machines, history, fired)
    /\ UNCHANGED <<fpc, fired, evars>>

\* VM::fire is called
FireCall ==
    /\ ~aborted
    /\ fpc = "idle"
    /\ fpc' = "fire"
    /\ vret' = VMRet("fire", "None")
    /\ vpre' = FiredSnapshot(machines, history, fired)
    /\ sret' = StepRet("none", "None")
    /\ spre' = VMSnapshot(machines, history, fired)
    /\ UNCHANGED <<machines, history, pushes, fired, aborted, evars>>

\* fire: one turn of its loop
FireLoop ==
    /\ fpc = "fire"
    /\ IF VMStatus(machines) = "Running"
       THEN \E o \in VMStepOutcomes(machines, history) :
                /\ VMStepApply(o)
                /\ IF o.result = "Ok"
                   THEN UNCHANGED <<fpc, vret>>
                   ELSE fpc' = "idle" /\ vret' = VMRet("fire", o.result)
                /\ UNCHANGED fired
       ELSE /\ fpc' = "idle"
            /\ IF VMStatus(machines) = "Panic"
               THEN /\ vret' = VMRet("fire", "Panic")
                    /\ aborted' = TRUE
                    /\ UNCHANGED fired
               ELSE /\ vret' = VMRet("fire", "Ok")
                    /\ fired' = TRUE
                    /\ UNCHANGED aborted
            /\ UNCHANGED <<machines, history, sret, spre, pushes>>
    /\ UNCHANGED <<vpre, evars>>

\* the machines after a commit that the first n of them accepted
Committed(ms, n) == [i \in 1..Len(ms) |-> IF i <= n THEN Commit(ms[i]) ELSE ms[i]]

\* VM::commit_account: every machine in turn, until one refuses
CommitAccount ==
    /\ ~aborted
    /\ fpc = "idle"
    /\ \E n \in 0..Len(machines) :
           /\ machines' = Committed(machines, n)
           /\ vret' = VMRet("commit_account",
                            IF n = Len(machines) THEN "Ok" ELSE "CommitError")
    /\ vpre' = FiredSnapshot(machines, history, fired)
    /\ UNCHANGED <<history, fpc, sret, spre, pushes, fired, aborted, evars>>

\* VM::commit_blockhash: every machine in turn, until one refuses
CommitBlockhash ==
    /\ ~aborted
    /\ fpc = "idle"
    /\ \E n \in 0..Len(machines) :
           /\ machines' = Committed(machines, n)
           /\ vret' = VMRet("commit_blockhash",
                            IF n = Len(machines) THEN "Ok" ELSE "CommitError")
    /\ vpre' = FiredSnapshot(machines, history, fired)
    /\ UNCHANGED <<history, fpc, sret, spre, pushes, fired, aborted, evars>>

VMNext == VMStep \/ FireCall \/ FireLoop \/ CommitAccount \/ CommitBlockhash

VMSpec == VMInit /\ [][VMNext]_vars

----------------------------------------------------------------------------
(* Properties of the Machine *)

StepCalled == ret.call = "step"
MachineKept == /\ stack = pre.stack
               /\ memory = pre.memory
               /\ return_range = pre.return_range

\* C1 (exit stickiness): a step() called on a machine whose position is terminal
\* with reason r returns Capture::Exit(r) and leaves the stack, the memory, the
\* return range and the position as they were, however the machine became
\* terminal and however many steps were taken before.
C1_ExitSticky ==
    (StepCalled /\ ~pre.position.ok) =>
        /\ ret.kind = "Exit"
        /\ ret.reason = pre.position.reason
        /\ position = pre.position
        /\ MachineKept
        /\ ~aborted

\* a second step on a machine that RETURN made terminal, with memory written
C1_Witness ==
    /\ StepCalled
    /\ ~pre.position.ok
    /\ pre.position.reason = "Returned"
    /\ pre.last.call = "step"
    /\ pre.last.kind = "Exit"
    /\ memory # <<>>
    /\ return_range # <<0, 0>>

\* C2 as claimed: once the position is terminal with reason r it stays terminal
\* with that same r under every step() and every exit(r').
C2_Original == ~pre.position.ok => position = pre.position

\* C2 as amended: exit(r') always leaves the position terminal with r' (so it
\* is idempotent for an equal reason and replaces a different one); a terminal
\* position never becomes a PC again; step() keeps the terminal reason and
\* returns it.
C2_ExitForces ==
    /\ ret.call = "exit" => (position = Err(ret.reason) /\ MachineKept)
    /\ ~pre.position.ok => ~position.ok
    /\ (~pre.position.ok /\ StepCalled) =>
           (position = pre.position /\ ret.kind = "Exit"
            /\ ret.reason = position.reason)

\* exit(r') on a machine already terminal with another reason
C2_Witness ==
    /\ ret.call = "exit"
    /\ ~pre.position.ok
    /\ pre.position.reason # ret.reason

\* C3: step() on a running machine always returns Ok, Exit or Trap and never
\* aborts, for code of every length.
C3_StepTotal ==
    (StepCalled /\ pre.position.ok) =>
        (~aborted /\ ret.kind \in {"Ok", "Exit", "Trap"})

\* C4: step() on a running machine with pc >= len(code) returns
\* Exit(Succeed.Stopped), makes the position terminal Stopped, runs no opcode
\* handler and leaves stack, memory and return range as they were.
C4_EndOfCode ==
    (StepCalled /\ pre.position.ok /\ pre.position.pc >= Len(code)) =>
        /\ ret.kind = "Exit"
        /\ ret.reason = "Stopped"
        /\ position = Err("Stopped")
        /\ ran = RanNone
        /\ MachineKept
        /\ ~aborted

\* a step past the end of the code, reached with a word on the stack
C4_Witness ==
    /\ StepCalled
    /\ pre.position.ok
    /\ pre.position.pc > Len(code)
    /\ stack # <<>>
    /\ position = Err("Stopped")

\* C5 as claimed: a running position is a PC with 0 <= PC <= len(code).
C5_Original == position.ok => (0 <= position.pc /\ position.pc <= Len(code))

\* C5 as amended: a running position is a PC with 0 <= PC <= len(code) + 32,
\* and it is past len(code) only right after a PUSHn whose immediate bytes
\* run past the end of the code.
C5_PcRange ==
    position.ok =>
        /\ 0 <= position.pc
        /\ position.pc <= Len(code) + PushLen(PUSH32)
        /\ position.pc > Len(code) =>
               /\ ran.ctl = "Continue"
               /\ IsPush(ran.opcode)
               /\ position.pc = ran.at + 1 + PushLen(ran.opcode)
               /\ ran.at < Len(code)

\* the PC after a PUSH32 in the last byte of the code
C5_Witness ==
    /\ position.ok
    /\ position.pc = Len(code) + PushLen(PUSH32)
    /\ ran.opcode = PUSH32

\* the offsets at which an instruction starts when the code is decoded from 0
RECURSIVE InstrStarts(_, _)
InstrStarts(c, i) ==
    IF i >= Len(c) THEN {}
    ELSE {i} \cup InstrStarts(c, i + 1 + (IF IsPush(CodeAt(c, i))
                                          THEN PushLen(CodeAt(c, i)) ELSE 0))

\* t is a JUMPDEST byte of the code outside every PUSH immediate
IsJumpDest(t) ==
    t < Len(code) /\ CodeAt(code, t) = JUMPDEST /\ t \in InstrStarts(code, 0)

\* the target a JUMP, or a JUMPI with a non-zero condition, was given
\* ({} when the step was no such jump)
JumpTargets ==
    IF ~(StepCalled /\ pre.position.ok /\ ran.ctl # "None") THEN {}
    ELSE IF ran.opcode = JUMP /\ Len(pre.stack) >= 1 THEN { Top(pre.stack) }
    ELSE IF ran.opcode = JUMPI /\ Len(pre.stack) >= 2 /\ Top(Pop(pre.stack)) # 0
         THEN { Top(pre.stack) }
    ELSE {}

\* C6 (PC monotonicity modulo jumps): a step that returns Ok either ran a
\* handler that returned Continue(k), 1 <= k <= 33, and the PC is pc + k, or one
\* that returned Jump(t), t a JUMPDEST byte outside every PUSH immediate, and
\* the PC is t; a JUMP or taken JUMPI to any other target exits with
\* Error.InvalidJump.
C6_PcMonotone ==
    /\ (StepCalled /\ ret.kind = "Ok") =>
           \/ /\ ran.ctl = "Continue"
              /\ 1 <= ran.arg /\ ran.arg <= 33
              /\ position = Ok(pre.position.pc + ran.arg)
           \/ /\ ran.ctl = "Jump"
              /\ ran.arg \in JumpTargets
              /\ IsJumpDest(ran.arg)
              /\ valids[ran.arg + 1]
              /\ position = Ok(ran.arg)
    /\ \A t \in JumpTargets :
           IF IsJumpDest(t)
           THEN ret.kind = "Ok" /\ position = Ok(t)
           ELSE ret.kind = "Exit" /\ ret.reason = "InvalidJump"
                /\ position = Err("InvalidJump")

\* a jump taken by JUMPI to a valid destination
C6_Witness ==
    /\ StepCalled
    /\ ret.kind = "Ok"
    /\ ran.opcode = JUMPI
    /\ ran.ctl = "Jump"
    /\ position = Ok(ran.arg)
    /\ ran.arg # pre.position.pc + 1

\* C7: when the handler at pc returns Trap(opcode), step() returns
\* Capture::Trap(opcode) with that opcode and leaves the position running at
\* pc + 1; the handler the next step() runs is the one at pc + 1.
C7_TrapAdvances ==
    /\ (StepCalled /\ ran.ctl = "Trap") =>
           /\ ret.kind = "Trap"
           /\ ret.opcode = ran.opcode
           /\ ran.opcode = CodeAt(code, pre.position.pc)
           /\ ran.at = pre.position.pc
           /\ position = Ok(pre.position.pc + 1)
    /\ (StepCalled /\ ret.kind = "Trap") => ran.ctl = "Trap"
    /\ (StepCalled /\ pre.last.call = "step" /\ pre.last.kind = "Trap"
        /\ ran.ctl # "None") => ran.at = pre.last.at + 1

\* the step after a trapping CALL ran the handler of the next opcode
C7_Witness ==
    /\ StepCalled
    /\ pre.last.call = "step"
    /\ pre.last.kind = "Trap"
    /\ ran.ctl = "Continue"
    /\ ran.at = pre.last.at + 1
    /\ CodeAt(code, pre.last.at) = CALL

----------------------------------------------------------------------------
(* Properties of the Runtime *)

RunCalled == ret.call = "run"
RunReturned == RunCalled /\ rpc = "idle" /\ ~aborted

\* C8: in run, the machine steps only while machine and runtime are running,
\* and a step that evaluates an opcode comes right after exactly one
\* pre_validate call, made for that opcode with the current stack, that
\* answered Ok; when pre_validate fails with e the opcode is not executed (no
\* machine step follows, the stack is as pre_validate saw it), the machine
\* position and the runtime status are terminal e, and run returns Exit(e).
C8_PreValidate ==
    /\ rpc = "step" => (position.ok /\ status = "Ok")
    /\ (rpc = "step" /\ Inspect(position, code).some) =>
           validated = Validated(1, CodeAt(code, position.pc), stack,
                                 position.pc, "Ok")
    /\ validated.result # "Ok" =>
           /\ validated.n = 1
           /\ position = Err(validated.result)
           /\ status = validated.result
           /\ stack = validated.stack
           /\ rpc # "step"
           /\ rpc = "idle" =>
                  (RunCalled /\ ret.kind = "Exit" /\ ret.reason = validated.result)

\* run has returned Exit(OutOfGas) for an opcode pre_validate rejected, after
\* earlier opcodes had left a word on the stack
C8_Witness ==
    /\ RunReturned
    /\ validated.result = "OutOfGas"
    /\ ret.kind = "Exit"
    /\ ret.reason = "OutOfGas"
    /\ stack # <<>>
    /\ validated.at > 0

\* C9: a run called after a run that returned Exit(e) returns Exit(e) again,
\* calls nothing of the Handler and leaves the machine's stack, memory, return
\* range and position and the runtime status as they were.
C9_StatusSticky ==
    (RunCalled /\ pre.last.call = "run" /\ pre.last.kind = "Exit") =>
        /\ ~called
        /\ ~aborted
        /\ rpc # "step"
        /\ position = pre.position
        /\ MachineKept
        /\ status = pre.status
        /\ status = pre.last.reason
        /\ rpc = "idle" => (ret.kind = "Exit" /\ ret.reason = pre.last.reason)

\* a second run has returned on a runtime that had exited with an error
C9_Witness ==
    /\ RunReturned
    /\ pre.last.call = "run"
    /\ pre.last.kind = "Exit"
    /\ ret.kind = "Exit"
    /\ ret.reason = "InvalidJump"

\* C10 (cooperative suspension): when run returns Trap(Resolve::Call) or
\* Trap(Resolve::Create) the runtime status is running and the machine's PC is
\* the one just after the trapping CALL or CREATE; it is still there when the
\* driver has resolved the interrupt, and the first handler a later run
\* executes is the one at that PC.
C10_Suspension ==
    /\ (RunCalled /\ ret.kind = "Trap") =>
           /\ rpc = "idle"
           /\ status = "Ok"
           /\ pending.kind = (IF ret.opcode = CALL THEN "Call" ELSE "Create")
           /\ ret.opcode \in {CALL, CREATE}
           /\ CodeAt(code, pending.at) = ret.opcode
           /\ position = Ok(pending.at + 1)
    /\ (pending.kind = "Resolved" /\ position.ok) =>
           (position.pc = pending.at + 1 /\ status = "Ok")
    /\ (ran.ctl # "None" /\ ran.after # NoPc) => ran.at = ran.after + 1

\* a later run has executed the opcode after a CALL whose interrupt was resolved
C10_Witness ==
    /\ RunCalled
    /\ ran.ctl # "None"
    /\ ran.after # NoPc
    /\ CodeAt(code, ran.after) = CALL
    /\ ran.at = ran.after + 1

\* C12 (stack bound): in a runtime built from a Config c the stack holds at
\* most c.stack_limit words at every point of every run; a machine step that
\* evaluates a PUSH on a stack of c.stack_limit words exits with
\* StackOverflow, leaves the stack as it was and makes the machine position
\* and the runtime status terminal StackOverflow.
C12_StackBound ==
    /\ Len(stack) <= config.stack_limit
    /\ (rpc = "step" /\ Inspect(position, code).some
           /\ IsPush(Inspect(position, code).opcode)
           /\ Len(stack) >= config.stack_limit) =>
           /\ StepOutcome("run").ret.kind = "Exit"
           /\ StepOutcome("run").ret.reason = "StackOverflow"
           /\ StepOutcome("run").stack = stack
    /\ (IsPush(ran.opcode) /\ ran.ctl = "Exit") =>
           /\ ran.arg = 0
           /\ status = "StackOverflow"
           /\ position = Err("StackOverflow")
           /\ Len(stack) = config.stack_limit
           /\ RunReturned => (ret.kind = "Exit" /\ ret.reason = "StackOverflow")

\* with stack_limit = 2, the third of three PUSH1 has exited the frame with
\* StackOverflow
C12_Witness ==
    /\ RunReturned
    /\ config.stack_limit = 2
    /\ ran.opcode = PUSH1
    /\ ran.at = 4
    /\ CodeAt(code, 0) = PUSH1
    /\ CodeAt(code, 2) = PUSH1
    /\ Len(stack) = 2
    /\ status = "StackOverflow"
    /\ position = Err("StackOverflow")
    /\ ret.kind = "Exit"
    /\ ret.reason = "StackOverflow"

\* is the opcode one that a flag of the Config switches off
GatedOff(cfg, opcode) ==
    \/ opcode = REVERT /\ ~cfg.has_revert
    \/ opcode = CHAINID /\ ~cfg.has_chain_id

\* C13 (fork gating): in a runtime whose Config has a has_* flag false, an
\* opcode of that flag that run comes to ends the frame with
\* DesignatedInvalid, whether pre_validate rejects it or lets the machine
\* step evaluate it.
C13_ForkGating ==
    /\ (validated.result # "Ok" /\ GatedOff(config, validated.opcode)) =>
           status = "DesignatedInvalid"
    /\ (ran.ctl # "None" /\ GatedOff(config, ran.opcode)) =>
           (status = "DesignatedInvalid" /\ position = Err("DesignatedInvalid"))

\* C18: run calls register_step exactly once for a machine step that
\* returned Ok, before it inspects the next opcode, with the address of the
\* runtime's context and a MachineStep whose pc and stack are those the
\* machine had before the opcode was evaluated; it does not call it for a
\* step that returned Exit or Trap, nor for an opcode pre_validate rejected.
C18_RegisterStep ==
    /\ registered.n = (IF registered.kind = "Ok" THEN 1 ELSE 0)
    /\ registered.kind = "Ok" =>
           /\ ran.ctl \in {"Continue", "Jump"}
           /\ ran.at = registered.before.pc
           /\ registered.address = context.address
           /\ registered.step.pc = registered.before.pc
           /\ registered.step.stack = registered.before.stack
           /\ registered.step.op = CodeAt(code, registered.before.pc)
    /\ (registered.kind # "None" /\ ran.ctl \in {"Continue", "Jump"}) =>
           registered.kind = "Ok"
    /\ validated.result # "Ok" => (registered.kind = "None" /\ registered.n = 0)

\* a jump has been registered with the stack that still held its target
C18_Witness ==
    /\ registered.kind = "Ok"
    /\ registered.n = 1
    /\ ran.ctl = "Jump"
    /\ registered.step.pc > 0
    /\ registered.step.stack # <<>>
    /\ registered.step.stack # stack

\* C20: the runtime status is terminal with a reason exactly when the
\* machine's position is terminal with that reason; when run returns Exit(e),
\* after a pre_validate failure, an Exit of the machine or an Exit of the
\* trap's evaluation, both are terminal with e.
C20_StatusPosition ==
    /\ (status = "Ok") <=> position.ok
    /\ status # "Ok" => position = Err(status)
    /\ (RunCalled /\ rpc = "idle" /\ ret.kind = "Exit") =>
           (status = ret.reason /\ position = Err(ret.reason))

\* run has returned the Exit of the evaluation of a trapped opcode
C20_Witness ==
    /\ RunReturned
    /\ ret.kind = "Exit"
    /\ registered.kind = "Trap"
    /\ status = ret.reason
    /\ position = Err(ret.reason)
    /\ ran.at > 0

----------------------------------------------------------------------------
(* Properties of the VM driver *)

\* the last operation was a step or a fire that has made a step
StepDone == vret.call \in {"step", "fire"} /\ sret.branch # "none"

\* C14: when fire returns Ok the status of the VM is ExitedOk or ExitedErr;
\* every step or fire called from then on returns Ok and changes neither the
\* machines nor the history.
C14_FireExits ==
    /\ vret = VMRet("fire", "Ok") =>
           (Len(machines) >= 1 /\ machines[1].status \in Exited)
    /\ (vpre.fired /\ vret.call \in {"step", "fire"}) =>
           /\ machines = vpre.machines
           /\ history = vpre.history
           /\ fpc = "idle" => vret.result = "Ok"

\* a step called after a fire that returned Ok, on a VM that had invoked
C14_Witness ==
    /\ vpre.fired
    /\ vret = VMRet("step", "Ok")
    /\ history # <<>>
    /\ machines[1].status = "ExitedErr"

\* C15: step and fire fail only with the RequireError of the instruction
\* step of the top machine, taken while it was Running; the pop-and-apply, the
\* invoke and the step on a finished single machine return Ok; a failing step
\* leaves the number of machines and the history as they were.
C15_OnlyRequire ==
    /\ ~aborted
    /\ (vret.call \in {"step", "fire"} /\ fpc = "idle") =>
           vret.result \in {"Ok", "RequireError"}
    /\ (vret.call \in {"step", "fire"} /\ vret.result = "RequireError") =>
           sret.result = "RequireError"
    /\ (StepDone /\ sret.branch \in {"pop", "invoke", "finished"}) =>
           sret.result = "Ok"
    /\ (StepDone /\ sret.result = "RequireError") =>
           /\ sret.branch = "instruction"
           /\ spre.machines[Len(spre.machines)].status = "Running"
           /\ Len(machines) = Len(spre.machines)
           /\ history = spre.history

\* a fire has failed with the RequireError of a sub-machine
C15_Witness ==
    /\ vret = VMRet("fire", "RequireError")
    /\ Len(machines) > 1
    /\ history # <<>>
    /\ machines[Len(machines)].require

\* C16 (frame ordering): a step executes at most one instruction, and only on
\* the last machine; every machine below the last one has invoked and waits:
\* it executes nothing until its sub-machine has exited, been popped and
\* applied to it.
C16_FrameOrder ==
    /\ StepDone =>
           /\ \A i \in 1..Len(spre.machines) :
                  i <= Len(machines) =>
                      /\ machines[i].executed >= spre.machines[i].executed
                      /\ machines[i].executed <= spre.machines[i].executed +
                             (IF i = Len(spre.machines) /\ sret.branch = "instruction"
                              THEN 1 ELSE 0)
           /\ Len(machines) > Len(spre.machines) =>
                  machines[Len(machines)].executed = 0
    /\ \A i \in 1..Len(machines) :
           /\ i < Len(machines) => machines[i].status \in Invokes
           /\ machines[i].invoked =
                  machines[i].applied + (IF machines[i].status \in Invokes THEN 1 ELSE 0)
           /\ machines[i].executed >= machines[i].invoked

\* the outermost machine has executed its second instruction after the
\* machine it invoked was applied to it
C16_Witness ==
    /\ StepDone
    /\ sret.branch = "instruction"
    /\ sret.result = "Ok"
    /\ Len(machines) = 1
    /\ machines[1].applied = 1
    /\ machines[1].executed = 2
    /\ spre.machines[1].executed = 1

\* C17 (call-stack discipline): when the top machine invokes, step appends
\* the invoke's context to the history and pushes one machine derived from
\* the top with that context; when the top machine has exited and is not the
\* only one, step pops it and applies it to the new top, and leaves the
\* history alone; the history only grows, and is as long as the number of
\* machines step has pushed.
C17_CallStack ==
    /\ Len(history) = pushes
    /\ (StepDone /\ spre.machines # <<>>) =>
           LET before == spre.machines
               top == before[Len(before)]
           IN  /\ Len(history) >= Len(spre.history)
               /\ SubSeq(history, 1, Len(spre.history)) = spre.history
               /\ top.status \in Invokes =>
                      /\ sret.branch = "invoke"
                      /\ history = Append(spre.history, top.invoke)
                      /\ machines = Append(before, Derive(top, top.invoke))
               /\ (top.status \in Exited /\ Len(before) > 1) =>
                      /\ sret.branch = "pop"
                      /\ history = spre.history
                      /\ Len(machines) = Len(before) - 1
                      /\ machines = [Front(before) EXCEPT
                                        ![Len(before) - 1] = ApplySub(@, top)]
               /\ sret.branch \in {"instruction", "finished"} =>
                      (Len(machines) = Len(before) /\ history = spre.history)

\* a step has popped the machine that the machine the outermost one invoked
\* had invoked
C17_Witness ==
    /\ StepDone
    /\ sret.branch = "pop"
    /\ Len(machines) = 2
    /\ Len(history) = 2
    /\ machines[2].applied = 1
    /\ machines[1].status \in Invokes

\* C19: the VM holds one machine after VM::new and at least one after every
\* step, fire, commit_account and commit_blockhash; no operation indexes an
\* empty call stack.
C19_NeverEmpty ==
    /\ Len(machines) >= 1
    /\ ~aborted
    /\ vret.call = "new" => Len(machines) = 1

\* a step on a VM whose only machine has exited has left that machine
C19_Witness ==
    /\ vret = VMRet("step", "Ok")
    /\ sret.branch = "finished"
    /\ Len(machines) = 1
    /\ machines[1].status \in Exited
    /\ spre.machines = machines

\* C21: every machine below the top of the call stack has invoked a call or
\* a create, so while there is more than one machine the bottom one has not
\* exited and the status of the VM is Running; fire returns Ok only when one
\* machine is left.
C21_BelowTopInvoke ==
    /\ \A i \in 1..(Len(machines) - 1) : machines[i].status \in Invokes
    /\ Len(machines) > 1 => machines[1].status \notin Exited
    /\ vret = VMRet("fire", "Ok") => Len(machines) = 1

\* a fire has returned Ok after the call stack had been three machines deep
C21_Witness ==
    /\ vret = VMRet("fire", "Ok")
    /\ Len(machines) = 1
    /\ Len(history) >= 2
    /\ machines[1].applied = 1
    /\ machines[1].status \in Exited

----------------------------------------------------------------------------
(* Properties of Machine::run *)

\* no byte of the code is a jump
JumpFree == \A i \in 1..Len(code) : code[i] \notin {JUMP, JUMPI}

MachineRunReturned(kinds) ==
    mpc = "idle" /\ ret.call = "mrun" /\ ret.kind \in kinds

\* C22 (termination on jump-free code): on a code without jumps every step
\* that returns Ok leaves the PC higher than it was, a run that was called
\* eventually returns Exit or Trap, and when run is called again after each
\* Trap, a run eventually returns Exit.
C22_Termination ==
    /\ []((JumpFree /\ ran.ctl = "Continue") => (position.ok /\ position.pc > ran.at))
    /\ (JumpFree /\ mpc = "loop") ~> MachineRunReturned({"Exit", "Trap"})
    /\ JumpFree ~> MachineRunReturned({"Exit"})

----------------------------------------------------------------------------
(* Properties of return_value *)

RangeSize == return_range[2] - return_range[1]

\* byte i (from 1) of the vector the three cases of the return value describe
ExpectedByte(i) ==
    LET at == return_range[1] + i - 1
        mem == IF at < Len(memory) THEN memory[at + 1] ELSE 0
    IN  IF return_range[1] > UsizeMax THEN 0
        ELSE IF return_range[2] > UsizeMax
             THEN (IF at < UsizeMax THEN mem ELSE 0)
        ELSE mem

ExpectedValue ==
    /\ returned.ok
    /\ Len(returned.bytes) = RangeSize
    /\ \A i \in 1..RangeSize : returned.bytes[i] = ExpectedByte(i)

\* C11 as claimed: for every return_range start..end with start <= end,
\* return_value() never aborts and returns exactly end - start bytes: zeros
\* when start > usize::MAX, the memory from start up to usize::MAX and then
\* zeros when only end > usize::MAX, memory[start..end] (zeros past the
\* memory's size) otherwise.
C11_Original == returned.called => ExpectedValue

\* C11 as amended: that vector is returned when end - start <= isize::MAX,
\* the most bytes a vector holds; for a larger range return_value() panics.
C11_ReturnValue ==
    returned.called =>
        IF RangeSize <= IsizeMax THEN ExpectedValue ELSE ~returned.ok

\* a range that starts in the memory's index space and ends past usize::MAX,
\* returned as a clamped read padded with zeros
C11_Witness ==
    /\ returned.called
    /\ returned.ok
    /\ return_range[1] <= UsizeMax
    /\ return_range[2] > UsizeMax
    /\ Len(returned.bytes) = RangeSize
    /\ RangeSize > UsizeMax - return_range[1]

====
